---- MODULE Spec2Model ----
(***************************************************************************)
(* Casting ritual sessions of the Mystical Chef's Grimoire.                *)
(*                                                                         *)
(* src/src/App.tsx owns the ingredient form, the flag that mounts the      *)
(* CastingOverlay and the recipe request; CastingOverlay.tsx owns one      *)
(* casting session: the frame loop that feeds video frames to the hand     *)
(* detector, the per-frame gesture logic of the three rituals and the      *)
(* timer chain that ends in onComplete.                                    *)
(*                                                                         *)
(* Units.  Angles are multiples of pi/AngleSteps, distances are hundredths *)
(* of the normalised frame width, time is in milliseconds.  progress is    *)
(* kept as the numerator of a fraction over RotationTarget, energyDensity  *)
(* as a pair <<numerator, denominator>>, so that no value is rounded.      *)
(*                                                                         *)
(* React.  A state setter changes the state at once; the callbacks that    *)
(* were created by an earlier render keep the values they captured until   *)
(* Render re-creates them (useCallback / useEffect dependencies).          *)
(***************************************************************************)
EXTENDS Integers, Sequences, FiniteSets, TLC

\* ---------------------------------------------------------------- bounds
MaxSessions == 1
AngleSteps  == 2
MaxStale    == 2
DropCap     == 2
MaxTicks    == 4
TickMs      == 2500
PoolSize    == 4
QuantityChoices == 1

\* ------------------------------------------------------ program constants
Revolutions     == 8
ComboTarget     == 10
PinchThreshold  == 4
PulseThreshold  == 6
PulseHoldMs     == 5000
DensityScale    == 1000
DensityOffset   == 1
MaxIngredients  == 4

None == "none"

\* number | null: Null, or Some(x) holding x
Null    == <<>>
Some(x) == <<x>>
Val(o)  == o[1]

Min(a, b) == IF a <= b THEN a ELSE b

Sessions   == 1 .. MaxSessions
Rituals    == {"grinding", "pinch", "pulse"}
Statuses   == {"casting", "synthesizing", "success"}

Pi             == AngleSteps
TwoPi          == 2 * Pi
Angles         == (1 - Pi) .. Pi
RotationTarget == Revolutions * TwoPi
PinchDists     == {3, 4, 5, 8, 10}
PalmDists      == {5, 6, 9, 10}
\* What a field of the form can hold: nothing, white space, a word.
FieldValues    == {"", " ", "x"}

\* What is typed into a field in the specification of the form alone.
FormValues     == {"x"}

\* COMMON_INGREDIENTS, the names and quantities in English.
COMMON_INGREDIENTS ==
    << [name |-> "potato",   quantities |-> <<"2", "3", "500 g">>],
       [name |-> "onion",    quantities |-> <<"1", "2", "half">>],
       [name |-> "beef",     quantities |-> <<"200 g", "500 g", "1 jin">>],
       [name |-> "egg",      quantities |-> <<"2 eggs", "3 eggs", "5 eggs">>],
       [name |-> "carrot",   quantities |-> <<"1 root", "2 roots", "3 roots">>],
       [name |-> "tomato",   quantities |-> <<"2", "3", "1">>],
       [name |-> "garlic",   quantities |-> <<"3 cloves", "5 cloves", "1 head">>],
       [name |-> "ginger",   quantities |-> <<"1 piece", "2 slices", "10 g">>],
       [name |-> "chili",    quantities |-> <<"2 roots", "3 roots", "a little">>],
       [name |-> "mushroom", quantities |-> <<"100 g", "200 g", "1 box">>],
       [name |-> "honey",    quantities |-> <<"1 spoon", "2 spoons", "30 g">>],
       [name |-> "lemon",    quantities |-> <<"half", "1", "2 slices">>] >>

\* The thumb-index distances 0.10, 0.03, 0.03, 0.10, 0.03 of five frames.
ExampleDists   == <<10, 3, 3, 10, 3>>

\* A detection result, reduced to what the active ritual reads from it:
\* the number of hands and the measurement v (fingertip angle, thumb-index
\* distance or palm distance).
NoHands == [hands |-> 0, v |-> 0]

Measurements(r) ==
    CASE r = "grinding" -> Angles
      [] r = "pinch"    -> PinchDists
      [] r = "pulse"    -> PalmDists

Frames(r) == {NoHands} \cup [hands : 1 .. 2, v : Measurements(r)]

VARIABLES
    \* App
    ingredients, loading, dish, error, showCasting, exiting,
    \* sessions, and what outlives the overlay of a session
    session, captured, cancelled, timers3000, timers1000, completeCalls, pending,
    lastRequest, succeeded,
    \* CastingOverlay state and refs
    ritualType, isInitialized, progress, comboCount, energyDensity, status,
    lastAngle, totalRotation, isPinching, pulseStartTime,
    \* the closure of the registered onResults, the frame loop, the clock
    cbStatus, loop, orphans, now,
    \* observers
    droppedRotation, clockwiseSeen, staleFrames, lastBadFrame, lastDist, matched,
    gap, handFrames

appVars     == <<ingredients, loading, dish, error, showCasting, exiting>>
sessionVars == <<session, captured, cancelled, timers3000, timers1000, completeCalls, pending,
                 lastRequest, succeeded>>
stateVars   == <<ritualType, isInitialized, progress, comboCount, energyDensity, status>>
refVars     == <<lastAngle, totalRotation, isPinching, pulseStartTime>>
loopVars    == <<cbStatus, loop, orphans>>
obsVars     == <<droppedRotation, clockwiseSeen, staleFrames, lastBadFrame, lastDist, matched,
                 gap, handFrames>>
vars == <<appVars, sessionVars, stateVars, refVars, loopVars, now, obsVars>>

\* ------------------------------------------------------------------ App

EmptyRow == [name |-> "", quantity |-> ""]

\* String.prototype.trim
Trim(str) == IF str = " " THEN "" ELSE str

\* Mutant: the fields are not trimmed.
IsValidRowUntrimmed(ing) == ing.name # "" /\ ing.quantity # ""

\* ing.name.trim() && ing.quantity.trim()
IsValidRow(ing) == Trim(ing.name) # "" /\ Trim(ing.quantity) # ""

ValidIngredients(ings) == SelectSeq(ings, IsValidRow)

\* <AnimatePresence>{showCasting && <CastingOverlay/>}</AnimatePresence>: the
\* overlay is in the tree while showCasting is set and, after that, until
\* its exit animation (exit={{ opacity: 0 }}) is over.
Mounted == showCasting \/ exiting

\* The exit animation is short against the delays of the timers (1000 ms,
\* 3000 ms), a step of the clock and a recipe request: none of these falls
\* into it.  Frames keep coming while it plays.
ExitOver == ~exiting

\* The overlay covers the whole viewport (fixed inset-0 z-[100]): the form
\* under it takes no input while the overlay is in the tree.
FormReachable == ~Mounted

\* The values a freshly mounted CastingOverlay starts from.
FreshOverlay(r) ==
    /\ ritualType' = r
    /\ isInitialized' = FALSE
    /\ progress' = 0
    /\ comboCount' = 0
    /\ energyDensity' = <<0, 1>>
    /\ status' = "casting"
    /\ lastAngle' = Null
    /\ totalRotation' = 0
    /\ isPinching' = FALSE
    /\ pulseStartTime' = Null
    /\ cbStatus' = "casting"
    /\ droppedRotation' = 0
    /\ clockwiseSeen' = FALSE
    /\ staleFrames' = 0
    /\ lastBadFrame' = Null
    /\ lastDist' = Null
    /\ matched' = 0
    /\ gap' = "none"
    /\ handFrames' = 0

\* Sends of the overlay that are still awaited when its effect is cleaned up.
Orphaned == IF loop = "sending"
            THEN orphans \cup {[session |-> session, status |-> cbStatus]}
            ELSE orphans

\* The overlay leaves the tree: effect cleanup (isRunning = false,
\* hands.close(), clearTimeout(timer)); its state and refs are gone.
Unmount ==
    /\ FreshOverlay("grinding")
    /\ loop' = "off"
    /\ orphans' = Orphaned

\* setShowCasting(false): the overlay starts its exit animation.
Hide ==
    /\ showCasting' = FALSE
    /\ exiting' = Mounted

\* newIngs = [...ingredients]; newIngs[index][field] = value: the copy is
\* shallow, so the row object is changed in place and every array that
\* holds it, the one captured by a startAlchemy closure included, sees it.
updateIngredient(index, field, value) ==
    /\ FormReachable
    /\ index \in 1 .. Len(ingredients)
    /\ ingredients' = [ingredients EXCEPT ![index][field] = value]
    /\ captured' = [s \in Sessions |->
                       IF index <= Len(captured[s])
                       THEN [captured[s] EXCEPT ![index][field] = value]
                       ELSE captured[s]]
    /\ UNCHANGED <<loading, dish, error, showCasting, exiting>>
    /\ UNCHANGED <<session, cancelled, timers3000, timers1000, completeCalls, pending>>
    /\ UNCHANGED <<lastRequest, succeeded, stateVars, refVars, loopVars, now, obsVars>>

\* if (ingredients.length < 4) setIngredients([...ingredients, { name: '',
\* quantity: '' }]); nothing otherwise.
addIngredient ==
    /\ FormReachable
    /\ ingredients' = IF Len(ingredients) < MaxIngredients
                      THEN Append(ingredients, EmptyRow)
                      ELSE ingredients
    /\ UNCHANGED <<loading, dish, error, showCasting, exiting>>
    /\ UNCHANGED <<sessionVars, stateVars, refVars, loopVars, now, obsVars>>

\* newIngs.splice(index, 1), with index counted from 1
Splice(rows, index) ==
    [i \in 1 .. Len(rows) - 1 |-> IF i < index THEN rows[i] ELSE rows[i + 1]]

\* if (ingredients.length > 1) the row at index is spliced out of a copy;
\* nothing otherwise.
removeIngredient(index) ==
    /\ FormReachable
    /\ index \in 1 .. Len(ingredients)
    /\ ingredients' = IF Len(ingredients) > 1
                      THEN Splice(ingredients, index)
                      ELSE ingredients
    /\ UNCHANGED <<loading, dish, error, showCasting, exiting>>
    /\ UNCHANGED <<sessionVars, stateVars, refVars, loopVars, now, obsVars>>

\* The entries of COMMON_INGREDIENTS the shuffle draws from.
Pool == SubSeq(COMMON_INGREDIENTS, 1, PoolSize)

\* Mutant: the rows are drawn independently, the same entry possibly twice.
DrawsWithRepeats(count) == [1 .. count -> 1 .. Len(Pool)]

\* [...COMMON_INGREDIENTS].sort(() => 0.5 - Math.random()).slice(0, count):
\* the first count places of some permutation of the entries.
Draws(count) ==
    {o \in [1 .. count -> 1 .. Len(Pool)] :
        \A i, j \in 1 .. count : i # j => o[i] # o[j]}

\* What randomizeIngredients can produce: count = Math.floor(Math.random()
\* * 4) + 1 rows, each with the name of its entry and one of the entry's
\* quantities.
Randomized ==
    UNION {{[i \in DOMAIN o |->
                [name     |-> Pool[o[i]].name,
                 quantity |-> Pool[o[i]].quantities[q[i]]]] :
            o \in Draws(IF count < Len(Pool) THEN count ELSE Len(Pool)),
            q \in [1 .. (IF count < Len(Pool) THEN count ELSE Len(Pool)) -> 1 .. QuantityChoices]} :
           count \in 1 .. 4}

\* randomizeIngredients: setIngredients(selected)
randomizeIngredients ==
    /\ FormReachable
    /\ ingredients' \in Randomized
    /\ UNCHANGED <<loading, dish, error, showCasting, exiting>>
    /\ UNCHANGED <<sessionVars, stateVars, refVars, loopVars, now, obsVars>>

\* handleMagic with no complete row: the validation message.
handleMagicRejects ==
    /\ FormReachable
    /\ ~loading
    /\ Len(ValidIngredients(ingredients)) = 0
    /\ error' = "validation"
    /\ UNCHANGED <<ingredients, loading, dish, showCasting, exiting>>
    /\ UNCHANGED <<sessionVars, stateVars, refVars, loopVars, now, obsVars>>

\* handleMagic with a complete row: setShowCasting(true) mounts a
\* CastingOverlay in its initial state (ritualType 'grinding'); its mount
\* effects have not run yet.
handleMagic ==
    /\ FormReachable
    /\ ~loading
    /\ Len(ValidIngredients(ingredients)) > 0
    /\ session < MaxSessions
    /\ session' = session + 1
    /\ captured' = [captured EXCEPT ![session + 1] = ingredients]
    /\ showCasting' = TRUE
    /\ FreshOverlay("grinding")
    /\ loop' = "effects"
    /\ UNCHANGED <<ingredients, loading, dish, error, exiting>>
    /\ UNCHANGED <<cancelled, timers3000, timers1000, completeCalls, pending, lastRequest, succeeded>>
    /\ now' = TickMs
    /\ UNCHANGED orphans

\* Mutant: the selection effect has no dependency array and runs after
\* every render.
SelectsOnEveryRender(phase) == phase \in {"effects", "timer"}

\* useEffect(() => { setRitualType(...) }, []): runs once, after the mount.
SelectsOnMount(phase) == phase = "effects"

\* The mount effects: types[Math.floor(Math.random() * types.length)] picks
\* the ritual; the render that follows re-creates onResults and the loop
\* effect, which arms the start timer of the frame loop.
SelectRitual(r) ==
    /\ Mounted
    /\ SelectsOnMount(loop)
    /\ r \in Rituals
    /\ ritualType' = r
    /\ loop' = "timer"
    /\ UNCHANGED <<isInitialized, progress, comboCount, energyDensity, status>>
    /\ UNCHANGED <<appVars, sessionVars, refVars, cbStatus, orphans, now, obsVars>>

\* onCancel = () => setShowCasting(false).  The mount effects run before any
\* click is handled.
Cancel ==
    /\ showCasting
    /\ loop # "effects"
    /\ Hide
    /\ cancelled' = cancelled \cup {session}
    /\ UNCHANGED <<ingredients, loading, dish, error>>
    /\ UNCHANGED <<session, captured, timers3000, timers1000, completeCalls, pending, lastRequest, succeeded>>
    /\ UNCHANGED <<stateVars, refVars, loopVars, now, obsVars>>

\* The exit animation is over: AnimatePresence drops the overlay.
ExitComplete ==
    /\ exiting
    /\ ~showCasting
    /\ exiting' = FALSE
    /\ Unmount
    /\ UNCHANGED <<ingredients, loading, dish, error, showCasting>>
    /\ UNCHANGED <<sessionVars, now>>

\* ------------------------------------------------- gesture interpretation

\* Mutant: a difference below -pi is not wrapped.
WrapOneWay(diff) == IF diff > Pi THEN diff - TwoPi ELSE diff

\* if (diff > Math.PI) diff -= 2 * Math.PI; if (diff < -Math.PI) diff += 2 * Math.PI;
Wrap(diff) ==
    LET d1 == IF diff > Pi THEN diff - TwoPi ELSE diff
    IN  IF d1 < -Pi THEN d1 + TwoPi ELSE d1

\* Mutant: the sign of the delta is not looked at.
AccumulatesAnyTurn(diff) == diff # 0

\* if (diff > 0): clockwise motion
Accumulates(diff) == diff > 0

\* Mutant: the percentage is not clamped.
ProgressOfUnclamped(total) == 100 * total

\* rotations = totalRotation / (2 * Math.PI);
\* Math.min(100, (rotations / 8) * 100), as a numerator over RotationTarget
ProgressOf(total) == Min(100 * (Revolutions * TwoPi), 100 * total)

\* Mutant: completion at half of the revolutions.
GrindingCompleteAtHalf(newProgress) == newProgress >= 50 * RotationTarget

\* if (newProgress >= 100)
GrindingComplete(newProgress) == newProgress >= 100 * RotationTarget

\* Mutant: the count is level-triggered.
PinchEntersWhileHeld(dist, pinching) == dist < PinchThreshold

\* Mutant: the pinch ends as soon as the entry threshold is left.
PinchExitsAtEntry(dist) == dist >= PinchThreshold

\* dist < threshold && !isPinchingRef.current
PinchEnters(dist, pinching) == dist < PinchThreshold /\ ~pinching

\* dist > threshold * 2
PinchExits(dist) == dist > PinchThreshold * 2

\* Mutant: the completion test is strict.
ComboCompleteLate(next) == next > ComboTarget

\* if (next >= 10)
ComboComplete(next) == next >= ComboTarget

\* Mutant: the density is not clamped.
DensityUnclamped(dist) == <<DensityScale, dist + DensityOffset>>

\* Math.min(100, (0.1 / (dist + 0.01)) * 100), as <<numerator, denominator>>
Density(dist) ==
    <<Min(100 * (dist + DensityOffset), DensityScale), dist + DensityOffset>>

\* if (dist < 0.06)
PulseClose(dist) == dist < PulseThreshold

\* !pulseStartTimeRef.current
TimerUnset(t) == t = Null \/ Val(t) = 0

\* Mutant: the hold time itself already completes.
PulseCompleteAtHold(elapsed) == elapsed >= PulseHoldMs

\* if (elapsed > 5000)
PulseComplete(elapsed) == elapsed > PulseHoldMs

\* handleSynthesis: setStatus('synthesizing') and the first timer of the chain
HandleSynthesis ==
    /\ status' = "synthesizing"
    /\ timers3000' = [timers3000 EXCEPT ![session] = @ + 1]

NoSynthesis == UNCHANGED <<status, timers3000>>

\* Mutant: the delta is also computed when no angle was recorded (null
\* counts as 0 in the subtraction).
HasPreviousAlways(last) == TRUE

\* lastAngleRef.current !== null
HasPrevious(last) == last # Null

Grinding(angle) ==
    LET known == HasPrevious(lastAngle)
        prev  == IF lastAngle # Null THEN Val(lastAngle) ELSE 0
        diff  == IF known THEN Wrap(angle - prev) ELSE 0
        adds  == known /\ Accumulates(diff)
        total == IF adds THEN totalRotation + diff ELSE totalRotation
    IN  /\ lastAngle' = Some(angle)
        /\ totalRotation' = total
        /\ progress' = IF adds THEN ProgressOf(total) ELSE progress
        /\ IF adds /\ GrindingComplete(ProgressOf(total))
           THEN HandleSynthesis ELSE NoSynthesis
        /\ droppedRotation' = IF known /\ diff < 0
                              THEN Min(DropCap, droppedRotation - diff)
                              ELSE droppedRotation
        /\ clockwiseSeen' = (clockwiseSeen \/ (known /\ diff > 0))
        /\ UNCHANGED <<isPinching, comboCount, pulseStartTime, energyDensity>>
        /\ UNCHANGED <<lastDist, matched>>

\* How many leading pinch frames of the session are the leading distances of
\* ExampleDists, once dist has been seen; -1 when the frames are another
\* sequence.
Matches(dist) ==
    IF matched >= 0 /\ matched < Len(ExampleDists) /\ ExampleDists[matched + 1] = dist
    THEN matched + 1
    ELSE -1

Pinch(dist) ==
    /\ IF PinchEnters(dist, isPinching)
       THEN /\ isPinching' = TRUE
            /\ comboCount' = comboCount + 1
            /\ IF ComboComplete(comboCount + 1) THEN HandleSynthesis ELSE NoSynthesis
       ELSE /\ isPinching' = IF PinchExits(dist) THEN FALSE ELSE isPinching
            /\ UNCHANGED comboCount
            /\ NoSynthesis
    /\ UNCHANGED <<lastAngle, totalRotation, progress, pulseStartTime, energyDensity>>
    /\ UNCHANGED <<droppedRotation, clockwiseSeen>>
    /\ lastDist' = Some(dist)
    /\ matched' = Matches(dist)

Pulse(dist) ==
    /\ energyDensity' = Density(dist)
    /\ IF PulseClose(dist)
       THEN LET start == IF TimerUnset(pulseStartTime) THEN now ELSE Val(pulseStartTime)
            IN  /\ pulseStartTime' = Some(start)
                /\ IF PulseComplete(now - start) THEN HandleSynthesis ELSE NoSynthesis
       ELSE /\ pulseStartTime' = Null
            /\ NoSynthesis
    /\ UNCHANGED <<lastAngle, totalRotation, progress, isPinching, comboCount>>
    /\ UNCHANGED <<droppedRotation, clockwiseSeen, lastDist, matched>>

Untouched ==
    /\ UNCHANGED <<progress, comboCount, energyDensity, status>>
    /\ UNCHANGED <<lastAngle, totalRotation, isPinching, pulseStartTime>>
    /\ UNCHANGED <<timers3000, droppedRotation, clockwiseSeen, lastDist, matched>>

\* Mutant: every session is interpreted by the grinding branch.
GestureAlwaysGrinding(f) == Grinding(f.v)

\* The branch of the gesture logic taken for a frame with at least one hand.
Gesture(f) ==
    CASE ritualType = "grinding" -> Grinding(f.v)
      [] ritualType = "pinch"    -> Pinch(f.v)
      [] ritualType = "pulse"    -> IF f.hands >= 2 THEN Pulse(f.v) ELSE Untouched

\* A frame of a pulse session that is not two hands held close.
BreaksProximity(f) == ~(f.hands >= 2 /\ PulseClose(f.v))

\* One frame to record lastAngle and one for each half turn of the target.
FrameCap == 2 * Revolutions + 1

\* Mutant: the gesture logic also runs on a result without hands.
HandsDetectedAlways(f) == TRUE

\* results.multiHandLandmarks && results.multiHandLandmarks.length > 0
HandsDetected(f) == f.hands > 0

\* The first loss of the hand in a grinding session: "open" after a frame
\* without hands that came when lastAngle was recorded and nothing was
\* accumulated or dropped yet, "bridged" for the frame with a hand that
\* follows it and adds a positive delta.
GapAfter(f) ==
    CASE ritualType # "grinding" -> gap
      [] f.hands = 0 ->
             IF gap = "open" \/ (lastAngle # Null /\ totalRotation = 0 /\ droppedRotation = 0)
             THEN "open" ELSE "none"
      [] OTHER ->
             IF gap = "open" /\ totalRotation' > totalRotation THEN "bridged" ELSE "none"

\* The frames with a hand that the grinding branch has interpreted in this
\* session, counted up to FrameCap.
FramesAfter(f) ==
    IF ritualType = "grinding" /\ f.hands > 0
    THEN Min(FrameCap, handFrames + 1)
    ELSE handFrames

\* onResults of a mounted overlay, as created by a render that saw status st.
Interpret(f, st) ==
    IF st = "casting"
    THEN /\ IF HandsDetected(f)
            THEN /\ status # "casting" => staleFrames < MaxStale
                 /\ staleFrames' = IF status # "casting"
                                   THEN staleFrames + 1 ELSE staleFrames
                 /\ Gesture(f)
            ELSE /\ Untouched
                 /\ UNCHANGED staleFrames
         /\ lastBadFrame' = IF ritualType = "pulse" /\ BreaksProximity(f)
                            THEN Some(now) ELSE lastBadFrame
         /\ gap' = GapAfter(f)
         /\ handFrames' = FramesAfter(f)
    ELSE /\ Untouched
         /\ UNCHANGED <<staleFrames, lastBadFrame, gap, handFrames>>

\* ------------------------------------------------------------ frame loop

\* Mutant: the effect calls process() at once, without the start delay.
StartsAfterDetectionAtOnce == TRUE

\* The start delay of the loop (1000 ms) is long against a detection: a send
\* that was in flight when the previous effect was cleaned up has settled
\* when the timer fires.
StartsAfterDetection == \A o \in orphans : o.session # session

\* setTimeout(() => { setIsInitialized(true); process(); }, 1000)
LoopTimer ==
    /\ Mounted
    /\ ExitOver
    /\ StartsAfterDetection
    /\ loop = "timer"
    /\ isInitialized' = TRUE
    /\ loop' = "sending"
    /\ UNCHANGED <<ritualType, progress, comboCount, energyDensity, status>>
    /\ UNCHANGED <<appVars, sessionVars, refVars, cbStatus, orphans, now, obsVars>>

\* requestAnimationFrame(process): await hands.send(...)
Process ==
    /\ Mounted
    /\ loop = "raf"
    /\ loop' = "sending"
    /\ UNCHANGED <<appVars, sessionVars, stateVars, refVars, cbStatus, orphans, now, obsVars>>

\* hands.send calls onResults and resolves; the loop asks for the next frame.
OnResults(f) ==
    /\ Mounted
    /\ loop = "sending"
    /\ f \in Frames(ritualType)
    /\ Interpret(f, cbStatus)
    /\ loop' = "raf"
    /\ UNCHANGED <<ritualType, isInitialized, cbStatus, orphans, now>>
    /\ UNCHANGED <<appVars, session, captured, cancelled, timers1000, completeCalls, pending>>
    /\ UNCHANGED <<lastRequest, succeeded>>

\* hands.send rejects: process ends without asking for another frame.
SendFails ==
    /\ Mounted
    /\ loop = "sending"
    /\ loop' = "off"
    /\ UNCHANGED <<appVars, sessionVars, stateVars, refVars, cbStatus, orphans, now, obsVars>>

\* A send that was awaited when its effect was cleaned up still reports to
\* the onResults it was registered with.  After the unmount the refs of that
\* callback are null and it returns at once.
OrphanResults(o, f) ==
    /\ o \in orphans
    /\ orphans' = orphans \ {o}
    /\ IF Mounted /\ o.session = session
       THEN /\ f \in Frames(ritualType)
            /\ Interpret(f, o.status)
       ELSE /\ f = NoHands
            /\ Untouched
            /\ UNCHANGED <<staleFrames, lastBadFrame, gap, handFrames>>
    /\ UNCHANGED <<ritualType, isInitialized, cbStatus, loop, now>>
    /\ UNCHANGED <<appVars, session, captured, cancelled, timers1000, completeCalls, pending>>
    /\ UNCHANGED <<lastRequest, succeeded>>

\* ... or the closed detector never reports.
OrphanDropped(o) ==
    /\ o \in orphans
    /\ orphans' = orphans \ {o}
    /\ UNCHANGED <<appVars, sessionVars, stateVars, refVars, cbStatus, loop, now, obsVars>>

\* The re-render after setStatus: onResults is re-created ([ritualType,
\* status]), the effect is cleaned up and run again with a new detector.
Render ==
    /\ Mounted
    /\ cbStatus # status
    /\ cbStatus' = status
    /\ loop' = "timer"
    /\ orphans' = Orphaned
    /\ UNCHANGED <<appVars, sessionVars, stateVars, refVars, now, obsVars>>

\* Date.now() moves on.  Only the pulse branch reads the clock.
Tick ==
    /\ Mounted
    /\ ExitOver
    /\ ritualType = "pulse"
    /\ now < TickMs * (MaxTicks + 1)
    /\ now' = now + TickMs
    /\ UNCHANGED <<appVars, sessionVars, stateVars, refVars, loopVars, obsVars>>

\* --------------------------------------------------- completion and recipe

Live(s) == Mounted /\ session = s

\* The delays of handleSynthesis (3000 ms, 1000 ms) are long against a
\* re-render and a detection: a timer of the mounted session runs after them.
Settled(s) ==
    Live(s) => /\ cbStatus = status
               /\ [session |-> s, status |-> "casting"] \notin orphans

\* setTimeout(() => { setStatus('success'); setTimeout(..., 1000); }, 3000)
Timer3000(s) ==
    /\ timers3000[s] > 0
    /\ Settled(s)
    /\ ExitOver
    /\ timers3000' = [timers3000 EXCEPT ![s] = @ - 1]
    /\ timers1000' = [timers1000 EXCEPT ![s] = @ + 1]
    /\ status' = IF Live(s) THEN "success" ELSE status
    /\ UNCHANGED <<ritualType, isInitialized, progress, comboCount, energyDensity>>
    /\ succeeded' = IF Live(s) THEN succeeded \cup {s} ELSE succeeded
    /\ UNCHANGED <<appVars, session, captured, cancelled, completeCalls, pending, lastRequest>>
    /\ UNCHANGED <<refVars, loopVars, now, obsVars>>

\* setTimeout(() => { onComplete(); }, 1000) with onComplete = startAlchemy:
\* setShowCasting(false), setLoading(true), setError(null) and the request,
\* made with the rows of the array in its closure that are complete now.
Timer1000(s) ==
    /\ timers1000[s] > 0
    /\ Settled(s)
    /\ ExitOver
    /\ timers1000' = [timers1000 EXCEPT ![s] = @ - 1]
    /\ completeCalls' = [completeCalls EXCEPT ![s] = @ + 1]
    /\ Hide
    /\ UNCHANGED <<stateVars, refVars, loopVars, obsVars>>
    /\ loading' = TRUE
    /\ error' = None
    /\ pending' = pending + 1
    /\ lastRequest' = Some(ValidIngredients(captured[s]))
    /\ UNCHANGED succeeded
    /\ UNCHANGED <<ingredients, dish, session, captured, cancelled, timers3000, now>>

\* How a recipe request can end: the response text is a recipe in JSON;
\* it is empty, or JSON without the fields of MagicalDish ("malformed"); it is
\* not JSON ("unparsable"); or generateContent itself rejects.
Outcomes == {"recipe", "malformed", "unparsable", "rejected"}

\* Mutant: a response that does not parse is not turned into a rejection.
RejectsOnlyFailedCalls(outcome) == outcome = "rejected"

\* JSON.parse(response.text || "{}") as MagicalDish: throws on text that is
\* not JSON, returns whatever object the text (or "{}") denotes otherwise.
ParseThrows(outcome) == outcome = "unparsable"

\* generateMagicalDish rejects: the call failed or the parse threw.
Rejects(outcome) == outcome = "rejected" \/ ParseThrows(outcome)

\* generateMagicalDish(validIngredients) settles: setDish(result), or
\* setError(err.message) in the catch, and setLoading(false) in the finally.
RequestSettles(outcome) ==
    /\ pending > 0
    /\ ExitOver
    /\ pending' = pending - 1
    /\ outcome \in Outcomes
    /\ dish' = IF Rejects(outcome) THEN dish ELSE outcome
    /\ error' = IF Rejects(outcome)
                THEN (IF ParseThrows(outcome) THEN "manifest" ELSE "failure")
                ELSE error
    /\ loading' = FALSE
    /\ UNCHANGED <<ingredients, showCasting, exiting>>
    /\ UNCHANGED <<session, captured, cancelled, timers3000, timers1000, completeCalls>>
    /\ UNCHANGED <<lastRequest, succeeded>>
    /\ UNCHANGED <<stateVars, refVars, loopVars, now, obsVars>>

\* ------------------------------------------------------- the state machine

OverlayActions ==
    \/ \E r \in Rituals : SelectRitual(r)
    \/ Cancel
    \/ ExitComplete
    \/ LoopTimer
    \/ Process
    \/ \E f \in Frames(ritualType) : OnResults(f)
    \/ SendFails
    \/ \E o \in orphans : \E f \in Frames(ritualType) : OrphanResults(o, f)
    \/ \E o \in orphans : OrphanDropped(o)
    \/ Render
    \/ Tick
    \/ \E s \in Sessions : Timer3000(s)
    \/ \E s \in Sessions : Timer1000(s)
    \/ \E outcome \in Outcomes : RequestSettles(outcome)

FilledRow == [name |-> "x", quantity |-> "x"]

\* One casting session: App has accepted the form and mounted a
\* CastingOverlay, whose mount effects are about to run.
Init ==
    /\ ingredients = <<FilledRow>>
    /\ loading = FALSE
    /\ dish = None
    /\ error = None
    /\ showCasting = TRUE
    /\ exiting = FALSE
    /\ session = 1
    /\ captured = [s \in Sessions |-> IF s = 1 THEN <<FilledRow>> ELSE <<>>]
    /\ cancelled = {}
    /\ timers3000 = [s \in Sessions |-> 0]
    /\ timers1000 = [s \in Sessions |-> 0]
    /\ completeCalls = [s \in Sessions |-> 0]
    /\ pending = 0
    /\ lastRequest = Null
    /\ succeeded = {}
    /\ ritualType = "grinding"
    /\ isInitialized = FALSE
    /\ progress = 0
    /\ comboCount = 0
    /\ energyDensity = <<0, 1>>
    /\ status = "casting"
    /\ lastAngle = Null
    /\ totalRotation = 0
    /\ isPinching = FALSE
    /\ pulseStartTime = Null
    /\ cbStatus = "casting"
    /\ loop = "effects"
    /\ orphans = {}
    /\ now = TickMs
    /\ droppedRotation = 0
    /\ clockwiseSeen = FALSE
    /\ staleFrames = 0
    /\ lastBadFrame = Null
    /\ lastDist = Null
    /\ matched = 0
    /\ gap = "none"
    /\ handFrames = 0

Next == OverlayActions

Spec == Init /\ [][Next]_vars

\* The whole application, from the empty form.
AppInit ==
    /\ ingredients = <<EmptyRow>>
    /\ loading = FALSE
    /\ dish = None
    /\ error = None
    /\ showCasting = FALSE
    /\ exiting = FALSE
    /\ session = 0
    /\ captured = [s \in Sessions |-> <<>>]
    /\ cancelled = {}
    /\ timers3000 = [s \in Sessions |-> 0]
    /\ timers1000 = [s \in Sessions |-> 0]
    /\ completeCalls = [s \in Sessions |-> 0]
    /\ pending = 0
    /\ lastRequest = Null
    /\ succeeded = {}
    /\ ritualType = "grinding"
    /\ isInitialized = FALSE
    /\ progress = 0
    /\ comboCount = 0
    /\ energyDensity = <<0, 1>>
    /\ status = "casting"
    /\ lastAngle = Null
    /\ totalRotation = 0
    /\ isPinching = FALSE
    /\ pulseStartTime = Null
    /\ cbStatus = "casting"
    /\ loop = "off"
    /\ orphans = {}
    /\ now = TickMs
    /\ droppedRotation = 0
    /\ clockwiseSeen = FALSE
    /\ staleFrames = 0
    /\ lastBadFrame = Null
    /\ lastDist = Null
    /\ matched = 0
    /\ gap = "none"
    /\ handFrames = 0

AppNext ==
    \/ \E i \in 1 .. MaxIngredients, fld \in {"name", "quantity"}, v \in FieldValues :
           updateIngredient(i, fld, v)
    \/ handleMagicRejects
    \/ handleMagic
    \/ OverlayActions

SpecApp == AppInit /\ [][AppNext]_vars

\* The ingredient form alone, before any casting session.
FormNext ==
    \/ addIngredient
    \/ \E i \in 1 .. MaxIngredients : removeIngredient(i)
    \/ \E i \in 1 .. MaxIngredients, fld \in {"name", "quantity"}, v \in FormValues :
           updateIngredient(i, fld, v)
    \/ randomizeIngredients

SpecForm == AppInit /\ [][FormNext]_vars

TypeOK ==
    /\ loading \in BOOLEAN /\ showCasting \in BOOLEAN /\ exiting \in BOOLEAN
    /\ session \in 0 .. MaxSessions
    /\ ritualType \in Rituals
    /\ status \in Statuses /\ cbStatus \in Statuses
    /\ lastAngle \in {Null} \cup {Some(a) : a \in Angles}
    /\ totalRotation \in Nat
    /\ loop \in {"off", "effects", "timer", "raf", "sending"}
    /\ staleFrames \in 0 .. MaxStale

\* ------------------------------------------------------------ properties

\* handleSynthesis calls made by session s: every call arms one timer chain,
\* and every chain ends in one onComplete.
SynthCalls(s) == timers3000[s] + timers1000[s] + completeCalls[s]

\* Frame f is handed to an onResults of the mounted session that was created
\* while status was 'casting'.
CastingFrame(f) ==
    \/ cbStatus = "casting" /\ OnResults(f)
    \/ \E o \in orphans :
           /\ o.status = "casting"
           /\ Live(o.session)
           /\ OrphanResults(o, f)

\* handleSynthesis is called in this step.
Fires == timers3000'[session] = timers3000[session] + 1

\* C1: in one casting session onComplete is invoked at most once.
\* (What a cancelled session still does is the subject of C2.)
C1_CompleteAtMostOnce == \A s \in Sessions \ cancelled : completeCalls[s] <= 1

\* C2: once a session has been cancelled, onComplete is never invoked for it
\* again and no recipe request is issued on its behalf.
C2_NoCompleteAfterCancel ==
    [][\A s \in cancelled :
           /\ completeCalls'[s] = completeCalls[s]
           /\ ~Timer1000(s)]_vars

\* C3: after the completion signal of a session no later frame is
\* interpreted: the interpreter state and the progress metrics stay as they
\* are and handleSynthesis is not called again.
C3_InertAfterCompletion ==
    [][(showCasting /\ showCasting' /\ status # "casting") =>
           /\ UNCHANGED <<lastAngle, totalRotation, isPinching, pulseStartTime>>
           /\ UNCHANGED <<comboCount, progress, energyDensity>>
           /\ SynthCalls(session)' = SynthCalls(session)]_vars

\* C4: in the pulse ritual every frame with fewer than two hands resets the
\* dwell timer: after it pulseStartTime is none.
C4_FewerHandsResetTimer ==
    [][\A f \in Frames("pulse") :
           (ritualType = "pulse" /\ f.hands < 2 /\ CastingFrame(f))
               => pulseStartTime' = Null]_vars

\* C5: in the pulse ritual a two-hand frame at distance >= 0.06 resets the
\* timer, and whenever completion fires every frame observed in the 5000 ms
\* before it was a two-hand frame at distance < 0.06.
C5_UnbrokenProximity ==
    [][\A f \in Frames("pulse") :
           (ritualType = "pulse" /\ CastingFrame(f)) =>
               /\ (f.hands = 2 /\ f.v >= PulseThreshold) => pulseStartTime' = Null
               /\ Fires => \/ lastBadFrame' = Null
                           \/ Val(lastBadFrame') + PulseHoldMs <= now]_vars

NetRotation == totalRotation - droppedRotation

\* The grinding ritual completed although the fingertip turned back.
C7_Witness ==
    /\ showCasting /\ ritualType = "grinding"
    /\ SynthCalls(session) = 1
    /\ droppedRotation > 0
    /\ NetRotation < 16 * Pi

\* C7 as stated: the rotational ritual never completes on a net signed
\* rotation of less than 16 pi.
C7_NetRevolutions ==
    (showCasting /\ ritualType = "grinding" /\ SynthCalls(session) > 0)
        => NetRotation >= 16 * Pi

\* C7, amended: the rotational ritual never completes while the accumulated
\* clockwise deltas (totalRotation) are less than 16 pi.
C7_ClockwiseRevolutions ==
    (showCasting /\ ritualType = "grinding" /\ SynthCalls(session) > 0)
        => totalRotation >= 16 * Pi

\* Only counter-clockwise deltas so far, and nothing has accumulated.
C8_Witness ==
    /\ showCasting /\ ritualType = "grinding"
    /\ lastAngle # Null
    /\ droppedRotation > 0
    /\ ~clockwiseSeen
    /\ totalRotation = 0 /\ progress = 0

\* C8: in the rotational ritual totalRotation and progress never decrease, a
\* frame whose normalized delta is negative or zero leaves both unchanged, and
\* as long as no delta was positive progress is 0 and completion has not fired.
C8_OnlyClockwiseAccumulates ==
    [][(showCasting /\ showCasting' /\ ritualType = "grinding") =>
           /\ totalRotation' >= totalRotation
           /\ progress' >= progress
           /\ \A f \in Frames("grinding") :
                  ( /\ CastingFrame(f)
                    /\ f.hands > 0
                    /\ lastAngle # Null
                    /\ Wrap(f.v - Val(lastAngle)) <= 0 )
                      => UNCHANGED <<totalRotation, progress>> /\ ~Fires
           /\ ~clockwiseSeen' => progress' = 0 /\ SynthCalls(session)' = 0]_vars

\* The accumulated clockwise delta is exactly 16 pi and completion has fired.
C9_Witness ==
    /\ showCasting /\ ritualType = "grinding"
    /\ totalRotation = 16 * Pi
    /\ progress = 100 * RotationTarget
    /\ SynthCalls(session) = 1
    /\ status = "synthesizing"

\* C9: in the rotational ritual progress is min(100, totalRotation / (16 pi)
\* * 100), and completion has fired exactly when the accumulated clockwise
\* delta has reached 16 pi: on the frame that reaches it and on none before.
C9_ProgressAndCompletion ==
    (showCasting /\ ritualType = "grinding") =>
        /\ progress = Min(100 * (16 * Pi), 100 * totalRotation)
        /\ totalRotation < 16 * Pi => SynthCalls(session) = 0
        /\ totalRotation >= 16 * Pi => SynthCalls(session) >= 1

\* The tenth pinch has been counted and completion has fired once.
C10_Witness ==
    /\ showCasting /\ ritualType = "pinch"
    /\ comboCount = 10
    /\ isPinching
    /\ SynthCalls(session) = 1

\* C10: in the pinch ritual completion fires on the frame of the 10th
\* increment of comboCount and on no earlier frame.
C10_TenthPinchCompletes ==
    (showCasting /\ ritualType = "pinch") =>
        /\ comboCount < 10 => SynthCalls(session) = 0
        /\ comboCount >= 10 => SynthCalls(session) >= 1

\* The five frames of ExampleDists, and nothing else, have been interpreted.
C11_Witness ==
    /\ showCasting /\ ritualType = "pinch"
    /\ matched = Len(ExampleDists)
    /\ comboCount = 2

\* C11: pinch counting is edge-triggered: comboCount goes up by exactly 1 on
\* a frame with distance < 0.04 while isPinching is false and by 0 on every
\* other frame; an increment leaves isPinching true and only a frame with
\* distance > 0.08 makes it false again, so such a frame lies between any two
\* increments; the distances 0.10, 0.03, 0.03, 0.10, 0.03 from the initial
\* state give comboCount = 2.
C11_EdgeTriggered ==
    [][(showCasting /\ showCasting' /\ ritualType = "pinch") =>
           /\ \A f \in Frames("pinch") :
                  CastingFrame(f) =>
                      comboCount' = IF f.hands > 0 /\ f.v < 4 /\ ~isPinching
                                    THEN comboCount + 1
                                    ELSE comboCount
           /\ comboCount' # comboCount =>
                  /\ \E f \in Frames("pinch") : CastingFrame(f)
                  /\ isPinching'
           /\ (isPinching /\ ~isPinching') =>
                  \E f \in Frames("pinch") :
                      CastingFrame(f) /\ f.hands > 0 /\ f.v > 8
           /\ matched' = Len(ExampleDists) => comboCount' = 2]_vars

\* Pinching at 0.03, then a frame at 0.05: still pinching, still one pinch.
C12_Witness ==
    /\ showCasting /\ ritualType = "pinch"
    /\ lastDist = Some(5)
    /\ isPinching
    /\ comboCount = 1

\* C12: a frame whose distance lies in the dead zone 0.04 <= distance <= 0.08
\* leaves isPinching and comboCount unchanged, and isPinching goes from true
\* to false only on a frame with distance > 0.08.
C12_Hysteresis ==
    [][\A f \in Frames("pinch") :
           (ritualType = "pinch" /\ CastingFrame(f) /\ f.hands > 0) =>
               /\ (4 <= f.v /\ f.v <= 8) => UNCHANGED <<isPinching, comboCount>>
               /\ (isPinching /\ ~isPinching') => f.v > 8]_vars

\* C13: a detection that fails or that returns no hands is not fatal: a
\* frame without hands makes no gesture progress, and the frame loop of the
\* session is not stopped by it (a later frame is still submitted and
\* interpreted, so the ritual can still complete).
C13_DetectionFailureNotFatal ==
    [][(showCasting /\ showCasting' /\ status = "casting") =>
           /\ loop' # "off"
           /\ CastingFrame(NoHands) =>
                  /\ UNCHANGED <<lastAngle, totalRotation, isPinching, pulseStartTime>>
                  /\ UNCHANGED <<comboCount, progress, energyDensity>>
                  /\ ~Fires]_vars

\* C14: when the response of the recipe request is malformed (text that is
\* not JSON, or an empty or JSON response without the fields of a recipe) the
\* caller ends with the error message set and loading false, and the
\* malformed data is not stored as the dish.  (Requests of sessions that
\* were not cancelled; what a cancelled session still does is C2.)
C14_MalformedResponseIsAnError ==
    [][\A outcome \in {"malformed", "unparsable"} :
           (cancelled = {} /\ RequestSettles(outcome)) =>
               /\ error' # None
               /\ ~loading'
               /\ dish' = dish]_vars

\* Empty, or white space only.
Blank == {"", " "}

\* No row of the form has both a name and a quantity.
NoCompleteRow ==
    \A i \in 1 .. Len(ingredients) :
        ingredients[i].name \in Blank \/ ingredients[i].quantity \in Blank

\* The form is submitted.
Submit == handleMagicRejects \/ handleMagic

\* The form was submitted without a complete row.
C15_Witness ==
    /\ NoCompleteRow
    /\ error = "validation"
    /\ ~showCasting
    /\ session = 0
    /\ pending = 0

\* C15: submitting the form when no row has both a non-blank name and a
\* non-blank quantity sets the validation message and starts no casting
\* session: showCasting stays false, no overlay (and so no detector and no
\* frame loop) is created and no recipe request is issued.
C15_ValidationRejects ==
    [][(NoCompleteRow /\ Submit) =>
           /\ error' = "validation"
           /\ ~showCasting'
           /\ UNCHANGED <<session, loop, orphans>>
           /\ UNCHANGED <<pending, loading, timers3000, timers1000, completeCalls>>]_vars

\* C16: after a session is cancelled its frame loop issues no further
\* detection request, and the result of a detection that was in flight when
\* it was cancelled changes no interpreter state, no progress metric and not
\* the status.
C16_CancelStopsLoop ==
    [][(session \in cancelled) =>
           /\ ~LoopTimer
           /\ ~Process
           /\ \A f \in Frames(ritualType) :
                  (OnResults(f) \/ \E o \in orphans : OrphanResults(o, f)) =>
                      /\ UNCHANGED <<lastAngle, totalRotation, isPinching, pulseStartTime>>
                      /\ UNCHANGED <<comboCount, progress, energyDensity, status>>
                      /\ ~Fires]_vars

\* The detection requests of the mounted session that have not settled: the
\* send awaited by the running loop and the sends that loops of cleaned-up
\* effects left behind.
Outstanding ==
    (IF Mounted /\ loop = "sending" THEN 1 ELSE 0)
        + Cardinality({o \in orphans : Live(o.session)})

C18_Witness ==
    /\ showCasting
    /\ ritualType = "pulse"
    /\ isInitialized
    /\ pulseStartTime # Null

\* C18: the ritual kind of a session is one of grinding, pinch and pulse; it
\* is chosen once, at the start of the session (by the mount effect, before
\* the frame loop has started), and does not change afterwards, so every
\* frame of the session is interpreted under that kind.
C18_RitualFixed ==
    [][(Mounted /\ Mounted' /\ session' = session) =>
           /\ ritualType' \in {"grinding", "pinch", "pulse"}
           /\ ritualType' # ritualType =>
                  /\ loop = "effects" /\ loop' # "effects"
                  /\ ~isInitialized /\ staleFrames = 0
                  /\ lastAngle = Null /\ lastDist = Null /\ lastBadFrame = Null
           /\ loop' = "effects" => loop = "effects"
           /\ \A f \in Frames(ritualType) :
                  (OnResults(f) \/ \E o \in orphans : OrphanResults(o, f)) =>
                      loop # "effects" /\ ritualType' = ritualType]_vars

\* C19: a recipe request is issued only as the consequence of a completion
\* notification (an onComplete call), and always with a non-empty ingredient
\* list in which every entry has a non-blank name and a non-blank quantity.
C19_RequestsFollowCompletion ==
    [][pending' > pending =>
           /\ \E s \in Sessions :
                  Timer1000(s) /\ completeCalls'[s] = completeCalls[s] + 1
           /\ lastRequest' # Null
           /\ Len(Val(lastRequest')) > 0
           /\ \A i \in 1 .. Len(Val(lastRequest')) :
                  /\ Val(lastRequest')[i].name \notin Blank
                  /\ Val(lastRequest')[i].quantity \notin Blank]_vars

Congruent(x, raw) == (raw - x) % TwoPi = 0

\* A step across the boundary, from pi to just above -pi, has added the small
\* positive delta between the two angles.
C21_Witness ==
    /\ showCasting /\ ritualType = "grinding"
    /\ lastAngle = Some(1 - Pi)
    /\ totalRotation = 1
    /\ droppedRotation = 0

\* C21 as stated: the delta of a frame is the signed difference of the two
\* angles normalized into (-pi, pi], and what is positive of it is added.
C21_DeltaHalfOpen ==
    [][\A f \in Frames("grinding") :
           ( /\ ritualType = "grinding"
             /\ CastingFrame(f)
             /\ f.hands > 0
             /\ lastAngle # Null ) =>
               LET raw == f.v - Val(lastAngle)
                   d   == CHOOSE x \in (1 - Pi) .. Pi : Congruent(x, raw)
               IN  totalRotation' = totalRotation + (IF d > 0 THEN d ELSE 0)]_vars

\* C21, amended: the delta of a frame is the signed difference of the two
\* angles wrapped into [-pi, pi]: a difference of exactly -pi or pi is left
\* as it is, every other one is the representative of magnitude below pi, so
\* no delta has a magnitude near 2 pi.  What is positive of it is added, what
\* is negative is dropped.
C21_DeltaClosed ==
    [][\A f \in Frames("grinding") :
           ( /\ ritualType = "grinding"
             /\ CastingFrame(f)
             /\ f.hands > 0
             /\ lastAngle # Null ) =>
               LET raw == f.v - Val(lastAngle)
                   d   == CHOOSE x \in (-Pi) .. Pi :
                              /\ Congruent(x, raw)
                              /\ x \in {-Pi, Pi} => x = raw
               IN  /\ totalRotation' = totalRotation + (IF d > 0 THEN d ELSE 0)
                   /\ droppedRotation' = IF d < 0
                                         THEN Min(DropCap, droppedRotation - d)
                                         ELSE droppedRotation]_vars

\* The hand was lost and found again, and the frame that found it added the
\* only delta accumulated so far.
C22_Witness ==
    /\ showCasting /\ ritualType = "grinding"
    /\ gap = "bridged"
    /\ totalRotation = 1
    /\ droppedRotation = 0

\* C22: in the rotational ritual a frame without a hand leaves lastAngle and
\* totalRotation unchanged; lastAngle only ever changes to the angle of a
\* frame with a hand, and a frame with a hand computes its delta against it,
\* however many frames without a hand lie in between.
C22_HandlessFramesKeepAngle ==
    [][(Mounted /\ Mounted' /\ session' = session /\ ritualType = "grinding") =>
           /\ CastingFrame(NoHands) => UNCHANGED <<lastAngle, totalRotation, progress>>
           /\ lastAngle' # lastAngle =>
                  \E f \in Frames("grinding") :
                      CastingFrame(f) /\ f.hands > 0 /\ lastAngle' = Some(f.v)
           /\ \A f \in Frames("grinding") :
                  (CastingFrame(f) /\ f.hands > 0 /\ lastAngle # Null) =>
                      LET d == Wrap(f.v - Val(lastAngle))
                      IN  totalRotation' = totalRotation + (IF d > 0 THEN d ELSE 0)]_vars

\* A pulse session whose hold timer runs, with the state of the two other
\* ritual kinds as it was at mount.
C23_Witness ==
    /\ showCasting /\ ritualType = "pulse"
    /\ pulseStartTime # Null
    /\ energyDensity # <<0, 1>>
    /\ lastAngle = Null /\ totalRotation = 0 /\ progress = 0
    /\ ~isPinching /\ comboCount = 0

\* C23: within a session only the state of the active ritual kind changes:
\* grinding never changes isPinching, comboCount, pulseStartTime and
\* energyDensity; pinch never changes lastAngle, totalRotation, progress,
\* pulseStartTime and energyDensity; pulse never changes lastAngle,
\* totalRotation, progress, isPinching and comboCount.
C23_OnlyActiveRitualState ==
    [][(Mounted /\ Mounted' /\ session' = session) =>
           /\ ritualType = "grinding" =>
                  UNCHANGED <<isPinching, comboCount, pulseStartTime, energyDensity>>
           /\ ritualType = "pinch" =>
                  UNCHANGED <<lastAngle, totalRotation, progress, pulseStartTime, energyDensity>>
           /\ ritualType = "pulse" =>
                  UNCHANGED <<lastAngle, totalRotation, progress, isPinching, comboCount>>]_vars

Rank(st) == CASE st = "casting" -> 0 [] st = "synthesizing" -> 1 [] st = "success" -> 2

\* The timers of handleSynthesis that have not run yet.
ChainsOf(s) == timers3000[s] + timers1000[s]

\* setTimeout callbacks run once their delay is over, React re-renders after
\* a state change, a detection settles and the exit animation ends.
SpecLive ==
    /\ Init
    /\ [][Next]_vars
    /\ WF_vars(Render)
    /\ WF_vars(ExitComplete)
    /\ WF_vars(\E o \in orphans : OrphanDropped(o) \/ \E f \in Frames(ritualType) : OrphanResults(o, f))
    /\ \A s \in Sessions : WF_vars(Timer3000(s)) /\ WF_vars(Timer1000(s))

\* C24, first part: the status of a mounted session never moves back.
C24_StatusForward ==
    [][(Mounted /\ Mounted' /\ session' = session) => Rank(status') >= Rank(status)]_vars

\* C24, last part: in a session that is not cancelled every chain of timers
\* started by handleSynthesis ends in its onComplete call.
C24_CompletionFollows ==
    \A s \in Sessions :
        (ChainsOf(s) > 0 /\ s \notin cancelled)
            ~> (s \in cancelled \/ (ChainsOf(s) = 0 /\ completeCalls[s] > 0))

\* C24: within a session status only moves forward along casting ->
\* synthesizing -> success, and onComplete is invoked only after the status
\* of the session has reached success.
C24_CompleteOnlyAfterSuccess ==
    [][/\ (Mounted /\ Mounted' /\ session' = session) => Rank(status') >= Rank(status)
       /\ \A s \in Sessions : Timer1000(s) => s \in succeeded]_vars

\* C25: at most one recipe request is outstanding at any time: loading is
\* true exactly while a request is outstanding, no casting session is open
\* while loading is true, and no session is started while a request is
\* outstanding.  (What a cancelled session still does is the subject of C2.)
C25_OneRequestOutstanding ==
    [][(cancelled' = {}) =>
           /\ pending' <= 1
           /\ loading' <=> (pending' > 0)
           /\ ~(showCasting' /\ loading')
           /\ handleMagic => (pending = 0 /\ ~loading)]_vars

\* A grinding session has completed.
C26_Witness ==
    /\ showCasting /\ ritualType = "grinding"
    /\ status = "synthesizing"
    /\ timers3000[session] > 0
    /\ totalRotation >= RotationTarget
    /\ handFrames = FrameCap

\* C26: in the rotational ritual the first frame with a hand only records
\* lastAngle and adds nothing; every later frame adds at most pi to
\* totalRotation, and nothing when the angle jumps by more than pi; hence
\* handleSynthesis is not called before 17 frames with a hand were seen.
C26_AtLeastSeventeenFrames ==
    [][(Mounted /\ Mounted' /\ session' = session /\ ritualType = "grinding") =>
           /\ totalRotation' >= totalRotation
           /\ totalRotation' - totalRotation <= Pi
           /\ \A f \in Frames("grinding") :
                  (CastingFrame(f) /\ f.hands > 0) =>
                      /\ lastAngle = Null =>
                             /\ lastAngle' = Some(f.v)
                             /\ UNCHANGED <<totalRotation, progress, status>>
                      /\ (lastAngle # Null /\ f.v - Val(lastAngle) > Pi) =>
                             /\ UNCHANGED <<totalRotation, progress, status>>
                             /\ droppedRotation' > droppedRotation \/ droppedRotation = DropCap
           /\ Fires => handFrames' >= 2 * Revolutions + 1]_vars

\* The names of all rows differ.
DistinctNames(rows) ==
    \A i, j \in 1 .. Len(rows) : i # j => rows[i].name # rows[j].name

\* Four rows as randomizeIngredients makes them.
C27_Witness ==
    /\ Len(ingredients) = MaxIngredients
    /\ DistinctNames(ingredients)
    /\ \A i \in 1 .. Len(ingredients) :
           \E k \in 1 .. Len(Pool) : ingredients[i].name = Pool[k].name

\* C27: the form always holds between 1 and 4 rows, whatever sequence of
\* addIngredient, removeIngredient, updateIngredient and
\* randomizeIngredients is performed; addIngredient at 4 rows and
\* removeIngredient at 1 row change nothing; randomizeIngredients yields 1
\* to 4 rows with pairwise distinct names.
C27_FormRows ==
    /\ Len(ingredients) >= 1 /\ Len(ingredients) <= 4
    /\ [][/\ Len(ingredients') >= 1 /\ Len(ingredients') <= 4
          /\ (addIngredient /\ Len(ingredients) = 4) => UNCHANGED ingredients
          /\ (addIngredient /\ Len(ingredients) < 4) => Len(ingredients') = Len(ingredients) + 1
          /\ \A i \in 1 .. MaxIngredients :
                 /\ (removeIngredient(i) /\ Len(ingredients) = 1) => UNCHANGED ingredients
                 /\ (removeIngredient(i) /\ Len(ingredients) > 1) =>
                        Len(ingredients') = Len(ingredients) - 1
          /\ randomizeIngredients =>
                 /\ Len(ingredients') >= 1 /\ Len(ingredients') <= 4
                 /\ DistinctNames(ingredients')]_vars

\* The fraction d is the number 100.
IsHundred(d) == d[1] = 100 * d[2]

\* The pulse timer runs and has run for a while.
C28_Witness ==
    /\ showCasting /\ ritualType = "pulse"
    /\ pulseStartTime # Null
    /\ now > Val(pulseStartTime)
    /\ energyDensity = Density(5)

\* C28: progress is always within [0, 100] and energyDensity within
\* [0, 100]; energyDensity = min(100, 0.1 / (distance + 0.01) * 100) is 100
\* for every distance <= 0.09, so the density shown is 100 whenever a frame
\* with two hands has started or continued the pulse timer.
C28_MetricsInRange ==
    /\ progress >= 0 /\ progress <= 100 * RotationTarget
    /\ energyDensity[2] > 0
    /\ energyDensity[1] >= 0 /\ energyDensity[1] <= 100 * energyDensity[2]
    /\ \A dist \in 0 .. 9 : IsHundred(Density(dist))
    /\ (Mounted /\ ritualType = "pulse" /\ pulseStartTime # Null) => IsHundred(energyDensity)

====
